---- MODULE Spec2Model ----
(***************************************************************************)
(* SmartAIMap: the marker clustering of src/App.tsx (the `clusters`        *)
(* useMemo, lines 346-374).                                                *)
(*                                                                         *)
(* The memo callback reads history, loading and imageLoading, returns []   *)
(* early when a flag is set or the history has at most one entry, and      *)
(* otherwise maps history.slice(1, 11) to markers and groups them with two *)
(* nested forEach loops and a Set of used ids.                             *)
(*                                                                         *)
(* Coordinates are integers here, so Math.sqrt(dx^2 + dy^2) < 12 is        *)
(* decided exactly by dx^2 + dy^2 < 12 * 12: Math.sqrt is monotone and     *)
(* correctly rounded, and Math.sqrt(144) is exactly 12.                    *)
(***************************************************************************)
EXTENDS Integers, Sequences, FiniteSets

VARIABLES
    history,        \* HistoryEntry[], newest first (App.tsx:68)
    pos,            \* pos[k]: the (x, y) given to the marker of map index k-1
    loading,        \* App.tsx:65
    imageLoading,   \* App.tsx:66
    historyMarkers, \* App.tsx:348
    result,         \* App.tsx:357
    used,           \* App.tsx:358, a Set of marker ids
    currentGroup,   \* App.tsx:361
    i,              \* position of the outer forEach (1-based)
    j,              \* position of the inner forEach (1-based)
    pc,             \* "entry", "outer", "inner", "done"
    clusters,       \* the value the memo returns
    \* withRetry (components/AudioManager.tsx:495-510)
    retries,        \* parameter retries of the running invocation
    delay,          \* parameter delay of the running invocation
    attempts,       \* the settled calls of fn, in order
    waits,          \* the setTimeout delays that have elapsed, in order
    caught,         \* the error in the catch block
    settled,        \* how the promise of the outermost invocation settled
    rpc,            \* "idle", "call", "catch", "sleep", "done"
    \* App (App.tsx:62-91)
    locationInfo,   \* App.tsx:63, the name of the LocationInfo or "null"
    viewUrl,        \* App.tsx:64, the prompt the image was made for, or NoView
    lockStatus,     \* App.tsx:67
    selectedStyle,  \* App.tsx:71
    quotaExceeded,  \* App.tsx:77
    isSystemUpdating, \* App.tsx:85
    calls,          \* the fetchRaiData calls in flight, oldest first
    regen,          \* the regenerateImage call in flight
    now,            \* Date.now()
    memoDeps,       \* the dependencies the memo was last computed for
    effectDeps,     \* the dependencies the auto-fetch effect last ran for
    userActions,    \* number of user actions so far
    voice,          \* the voice command in progress (lines 187-232)
    caps,           \* the bounds of the specification in force
    batch,          \* observer: the calls started since no call was in flight
    searchShown,    \* observer: the name a user search has completed for, with
                    \* nothing else in flight and no user action since
    \* BodyLockOverlay (unnamed/part_000:282-311)
    progress,       \* part_000:283
    isPressing,     \* part_000:284
    scanComplete,   \* part_000:285
    timerRef,       \* part_000:286: TRUE while the interval it holds is set
    effectDue,      \* the effect of the last render has not run yet
    timeouts        \* the setTimeout(onVerify, 1000) that have not fired

memoVars == <<history, pos, loading, imageLoading, historyMarkers, result,
              used, currentGroup, i, j, pc, clusters>>

retryVars == <<retries, delay, attempts, waits, caught, settled, rpc>>

appVars == <<locationInfo, viewUrl, lockStatus, selectedStyle, quotaExceeded,
             isSystemUpdating, calls, regen, now, memoDeps, effectDeps,
             userActions, voice, caps, batch, searchShown>>

\* The variables of the stepped memo that the App does not touch.
memoSteps == <<pos, result, used, currentGroup, i, j, pc>>

holdVars == <<progress, isPressing, scanComplete, timerRef, effectDue, timeouts>>

vars == <<memoVars, retryVars, appVars, holdVars>>

outsideMemo == <<retryVars, appVars, holdVars>>

inputVars == <<history, pos, loading, imageLoading>>

----------------------------------------------------------------------------
(* Bounds *)

MaxHistory == 4

MaxId == 3

(* Program constants *)

CLUSTER_THRESHOLD == 12

SLICE_START == 1

SLICE_END == 11

----------------------------------------------------------------------------
(* Input domains *)

Ids == 1..MaxId

Point(px, py) == [x |-> px, y |-> py]

Points ==
    { Point(0, 0), Point(10, 0), Point(20, 0), Point(12, 0),
      Point(1, 1), Point(50, 50) }

\* A coordinate is an integer or NaN; NaN is carried by a value that no
\* coordinate, difference or square of the model takes.
NaN == -1000000

\* Positions for the degenerate cases: NaN coordinates, and the two ends
\* x = 0 and x = 99 of the panorama.
DegeneratePoints ==
    { Point(0, 0), Point(5, 0), Point(99, 0),
      Point(NaN, 0), Point(0, NaN), Point(NaN, NaN) }

Min(a, b) == IF a <= b THEN a ELSE b

Max(a, b) == IF a >= b THEN a ELSE b

SeqsUpTo(S, n) == UNION { [1..k -> S] : k \in 0..n }

\* HistoryEntry (types.ts:41-47); only the id is read by the grouping.
\* An id is Date.now().toString() at the time the setHistory updater runs
\* (App.tsx:157, 271): two entries made in the same millisecond, or around a
\* wall-clock adjustment, carry the same id, so ids are not drawn distinct.
HistoryEntry == [id : Ids]

\* Ids are only ever compared for equality (Set.has / Set.add), so the
\* histories are enumerated up to renaming of ids: the first entry has id 1
\* and every entry has an id already seen or the next fresh one.
IdsInFirstUseOrder(h) ==
    \A k \in 1..Len(h) :
        \E bound \in 0..MaxId :
            /\ bound = Cardinality({ h[m].id : m \in 1..(k - 1) })
            /\ h[k].id <= bound + 1

----------------------------------------------------------------------------
(* The memo callback *)

\* if (loading || imageLoading || history.length <= 1) return [];
EarlyReturn(h, ld, imgLd) == ld \/ imgLd \/ Len(h) <= 1

\* Variant: the early return yields one empty group, [[]].
EmptyClustersOneGroup == << << >> >>

EmptyClusters == << >>

\* Variant: splice(1, 10) instead of slice(1, 11): the receiver loses the
\* entries it hands out.
ReceiverAfterSplice(h) == SubSeq(h, 1, Min(Len(h), SLICE_START))

\* The receiver of history.slice(1, 11) after the call: slice copies.
ReceiverAfterSlice(h) == h

\* Number of entries history.slice(1, 11) yields.
SliceLen(h) == Max(Min(Len(h), SLICE_END) - SLICE_START, 0)

\* Variant: slice(0, 10), the markers start at the newest entry.
HistoryMarkersOfFromNewest(h, p) ==
    [k \in 1..SliceLen(h) |->
        [idx |-> k - 1,
         id  |-> h[k].id,
         x   |-> p[k].x,
         y   |-> p[k].y]]

\* history.slice(1, 11).map((entry, idx) => ({ id: entry.id, x: ..., y: ... }))
\* The marker object of map index idx is identified by idx; its position is
\* the one the placement formula gives for idx, here p[idx + 1].
HistoryMarkersOf(h, p) ==
    [k \in 1..SliceLen(h) |->
        [idx |-> k - 1,
         id  |-> h[k + SLICE_START].id,
         x   |-> p[k].x,
         y   |-> p[k].y]]

\* IEEE 754 arithmetic on the coordinates.
IsNaN(v) == v = NaN

\* a - b
Sub(a, b) == IF IsNaN(a) \/ IsNaN(b) THEN NaN ELSE a - b

\* a + b
Add(a, b) == IF IsNaN(a) \/ IsNaN(b) THEN NaN ELSE a + b

\* Math.pow(a, 2)
Pow2(a) == IF IsNaN(a) THEN NaN ELSE a * a

\* a < b: false as soon as one side is NaN
LessThan(a, b) == ~IsNaN(a) /\ ~IsNaN(b) /\ a < b

\* a <= b: false as soon as one side is NaN
LessOrEqual(a, b) == ~IsNaN(a) /\ ~IsNaN(b) /\ a <= b

Abs(a) == IF a < 0 THEN 0 - a ELSE a

\* Variant: x is taken as cyclic over 0..100, the shorter way round counts.
Dist2Toroidal(m1, m2) ==
    LET dx == Sub(m1.x, m2.x)
        wx == IF IsNaN(dx) THEN NaN ELSE Min(Abs(dx), 100 - Abs(dx))
    IN  Add(Pow2(wx), Pow2(Sub(m1.y, m2.y)))

\* Math.pow(m1.x - m2.x, 2) + Math.pow(m1.y - m2.y, 2); Math.sqrt of it is
\* NaN exactly when it is NaN.
Dist2(m1, m2) ==
    Add(Pow2(Sub(m1.x, m2.x)), Pow2(Sub(m1.y, m2.y)))

\* Variant: the comparison is <= instead of <.
WithinThresholdInclusive(m1, m2) ==
    LessOrEqual(Dist2(m1, m2), CLUSTER_THRESHOLD * CLUSTER_THRESHOLD)

\* Variant: Math.sqrt is forgotten, the squared distance is compared to 12.
WithinThresholdNoSqrt(m1, m2) ==
    LessThan(Dist2(m1, m2), CLUSTER_THRESHOLD)

\* dist < CLUSTER_THRESHOLD, with dist = Math.sqrt(Dist2)
WithinThreshold(m1, m2) ==
    LessThan(Dist2(m1, m2), CLUSTER_THRESHOLD * CLUSTER_THRESHOLD)

\* Variant: the anchor is not marked used.
StartGroupAnchorNotUsed(m1, usedIds) ==
    [group |-> <<m1>>, used |-> usedIds]

\* const currentGroup = [m1]; used.add(m1.id);
StartGroup(m1, usedIds) ==
    [group |-> <<m1>>, used |-> usedIds \cup {m1.id}]

\* Variant: m2 joins when it is close to any member of the group, not only
\* to the anchor.
InnerCallbackTransitive(m1, m2, st) ==
    IF m2.id \in st.used
    THEN st
    ELSE IF \E k \in 1..Len(st.group) : WithinThreshold(st.group[k], m2)
         THEN [group |-> Append(st.group, m2), used |-> st.used \cup {m2.id}]
         ELSE st

\* The inner forEach callback applied to m2, for anchor m1, on the pair
\* st = [group, used].
InnerCallback(m1, m2, st) ==
    IF m2.id \in st.used
    THEN st
    ELSE IF WithinThreshold(m1, m2)
         THEN [group |-> Append(st.group, m2), used |-> st.used \cup {m2.id}]
         ELSE st

\* Variant: the group is put in front (unshift).
PushGroupFront(res, group) == <<group>> \o res

\* result.push(currentGroup)
PushGroup(res, group) == Append(res, group)

\* The two forEach loops run to the end, as the callbacks above applied in
\* input order.
RECURSIVE InnerLoop(_, _, _, _)
InnerLoop(ms, m1, k, st) ==
    IF k > Len(ms)
    THEN st
    ELSE InnerLoop(ms, m1, k + 1, InnerCallback(m1, ms[k], st))

RECURSIVE OuterLoop(_, _, _, _)
OuterLoop(ms, k, res, usedIds) ==
    IF k > Len(ms)
    THEN res
    ELSE IF ms[k].id \in usedIds
         THEN OuterLoop(ms, k + 1, res, usedIds)
         ELSE LET st == InnerLoop(ms, ms[k], 1, StartGroup(ms[k], usedIds))
              IN  OuterLoop(ms, k + 1, PushGroup(res, st.group), st.used)

\* The value of the memo callback for a history, positions and flags.
ClustersOf(h, p, ld, imgLd) ==
    IF EarlyReturn(h, ld, imgLd)
    THEN EmptyClusters
    ELSE OuterLoop(HistoryMarkersOf(ReceiverAfterSlice(h), p), 1, << >>, {})

\* x: 10 + (idx * 25) % 80 + Math.sin(idx) * 8, y: 40 + Math.cos(idx) * 20
\* for idx = 0..9, rounded to the nearest integer. The rounding changes no
\* comparison with 12: the distances below 12 are 7.59 (idx 1, 5),
\* 7.99 (3, 9) and 10.81 (2, 8), the next one is 12.25 (1, 7), and they
\* become 7.07, 8.25, 10.30 and 12.65.
CodePos ==
    << Point(10, 60), Point(42, 51), Point(67, 32), Point(86, 20),
       Point(24, 27), Point(47, 46), Point(78, 59), Point(30, 55),
       Point(58, 37), Point(78, 22) >>

----------------------------------------------------------------------------
(* withRetry *)

DEFAULT_RETRIES == 2

DEFAULT_DELAY == 2000

\* Strings are sequences of characters, so that includes is a search.
Str429 == <<"4", "2", "9">>

StrQuota == <<"q", "u", "o", "t", "a">>

StrExhausted == <<"E", "X", "H", "A", "U", "S", "T", "E", "D">>

\* String.prototype.includes
Includes(str, needle) ==
    \E k \in 0..(Len(str) - Len(needle)) :
        SubSeq(str, k + 1, k + Len(needle)) = needle

\* The errors fn rejects with: an object whose message is a string or is
\* missing (defined = FALSE).
Message(str) == [defined |-> TRUE, text |-> str]

NoMessage == [defined |-> FALSE, text |-> << >>]

ErrorMessages ==
    { Message(<<"H", "T", "T", "P", " ">> \o Str429),
      Message(StrQuota \o <<" ", "h", "i", "t">>),
      Message(<<"R", "_">> \o StrExhausted),
      Message(<<"Q", "u", "o", "t", "a">>),
      Message(<<"4", "2", " ", "9">>),
      Message(<<"N", "o", " ", "i", "m", "a", "g", "e">>),
      NoMessage }

Values == {"v1", "v2"}

\* How one call of fn settles.
FnOutcomes ==
    [ok : {TRUE}, value : Values, message : {NoMessage}]
    \cup [ok : {FALSE}, value : {"none"}, message : ErrorMessages]

NoOutcome == [ok |-> FALSE, value |-> "none", message |-> NoMessage]

\* error.message?.includes(needle): undefined, hence falsy, without message
MessageIncludes(msg, needle) == msg.defined /\ Includes(msg.text, needle)

\* Variant: only '429' is looked for.
IsQuotaErrorOnly429(err) == MessageIncludes(err.message, Str429)

\* Variant: every error counts as a quota error.
IsQuotaErrorAlways(err) == TRUE

\* isQuotaError (lines 499-501)
IsQuotaError(err) ==
    \/ MessageIncludes(err.message, Str429)
    \/ MessageIncludes(err.message, StrQuota)
    \/ MessageIncludes(err.message, StrExhausted)

\* Variant: the retry gets no budget, withRetry(fn, 0, delay * 2).
RetriesOfRetryZero(r) == 0

\* Variant: the retry keeps the budget, withRetry(fn, retries, delay * 2).
RetriesOfRetryKept(r) == r

\* withRetry(fn, retries - 1, delay * 2): the first argument
RetriesOfRetry(r) == r - 1

\* Variant: the delay is not doubled.
DelayOfRetryConstant(dl) == dl

\* withRetry(fn, retries - 1, delay * 2): the second argument
DelayOfRetry(dl) == dl * 2

RetryIdle ==
    /\ retries = DEFAULT_RETRIES
    /\ delay = DEFAULT_DELAY
    /\ attempts = << >>
    /\ waits = << >>
    /\ caught = NoOutcome
    /\ settled = [state |-> "pending", with |-> NoOutcome]
    /\ rpc = "idle"

----------------------------------------------------------------------------
(* App: state and helpers *)

\* At most MaxCalls fetchRaiData calls are in flight at a time.
MaxCalls == 1

\* Date.now() takes the values 0..MaxClock: no call resolves after MaxClock.
MaxClock == 21

\* Number of searches, status changes, regenerations and voice commands of
\* the user.
MaxUserActions == 1

\* The same three bounds for OverlapSpec: short histories, more user actions
\* and more calls in flight.
MaxOverlapCalls == 2

MaxOverlapClock == 2

MaxOverlapActions == 2

\* The positions a call in flight can have in calls.
Slots == 1..(MaxCalls + MaxOverlapCalls)

AppCaps == [calls |-> MaxCalls, clock |-> MaxClock, actions |-> MaxUserActions]

OverlapCaps ==
    [calls |-> MaxOverlapCalls, clock |-> MaxOverlapClock,
     actions |-> MaxOverlapActions]

\* The styles a CHANGE_STYLE command can name, out of VISUAL_STYLES (line 19).
Styles == {"Cinematic", "Classified"}

\* The targets a NAVIGATE command can name.
VoiceTargets == {"Arctic Satellite Array"}

\* Observer of the calls started since no call was in flight: two of them
\* were in flight together (overlap), one has failed, the one started last
\* has finished (lastGone), and locationInfo, and viewUrl with the newest
\* history entry, were last written by the one started last.
NoBatch ==
    [overlap |-> FALSE, failed |-> FALSE, lastGone |-> FALSE,
     infoByLast |-> FALSE, viewByLast |-> FALSE]

\* The call at position k of calls is the one started last.
IsLast(k) == k = Len(calls) /\ ~batch.lastGone

IdleVoice == [vpc |-> "idle", style |-> "none", info |-> "none"]

HISTORY_KEPT == 19

INITIAL_LOCATION == "Mars Terraforming Site Delta"

\* A plain query and a 16 character hex code (line 142).
SearchQueries == {"Arctic Satellite Array", "0123456789ABCDEF"}

\* /^[0-9A-F]{16}$/i.test(target.trim())
IsClassifiedCode(target) == target = "0123456789ABCDEF"

\* What decryptClassifiedCode resolves to (lines 145-148).
DecryptedName == "Classified Site"

DecryptedStyle == "Classified"

LockStatuses == {"UNLOCKED", "SCANNING", "LOCKED", "OVERRIDE", "DECRYPTING"}

\* The errors an awaited service call rejects with.
ApiErrors ==
    { [ok |-> FALSE, value |-> "none",
       message |-> Message(<<"H", "T", "T", "P", " ">> \o Str429)],
      [ok |-> FALSE, value |-> "none",
       message |-> Message(<<"N", "o", " ", "i", "m", "a", "g", "e">>)] }

NoView == [target |-> "null", style |-> "null"]

\* The image generate360View resolves to for `${target} in a ${style} style`.
ViewFor(target, style) == [target |-> target, style |-> style]

IdleRegen == [cpc |-> "idle", name |-> "none", style |-> "none"]

\* The calls in flight without the k-th, which has settled.
Settled(cs, k) == SubSeq(cs, 1, k - 1) \o SubSeq(cs, k + 1, Len(cs))

\* Date.now() when a continuation makes a history entry. The clock of the
\* model advances with every entry, so the ids made here are distinct; the
\* memo callback is run on histories with repeated ids in Spec.
DateNow == now + 1

\* Variant: imageLoading is missing from the dependency array.
MemoDepsOfWithoutImageLoading(h, ld, imgLd) == <<h, ld>>

\* [history, loading, imageLoading] (line 374)
MemoDepsOf(h, ld, imgLd) == <<h, ld, imgLd>>

\* [fetchRaiData, isSystemUpdating, lockStatus, selectedStyle] (line 288);
\* fetchRaiData is the same function in every render (useCallback, []).
EffectDepsOf(updating, status, style) == <<updating, status, style>>

\* Variant: the oldest entry is never dropped.
PrependedKeepAll(entry, prev) == <<entry>> \o prev

\* [entry, ...prev.slice(0, 19)] (lines 157, 271)
Prepended(entry, prev) ==
    <<entry>> \o SubSeq(prev, 1, Min(Len(prev), HISTORY_KEPT))

\* The overlay after its first render and effect (part_000:283-286): the
\* effect takes its else branch and Math.max(0, 0 - 5) leaves progress 0.
ScannerIdle ==
    /\ progress = 0
    /\ isPressing = FALSE
    /\ scanComplete = FALSE
    /\ timerRef = FALSE
    /\ effectDue = FALSE
    /\ timeouts = 0

\* The state after construction and the first render (lines 63-90), the
\* overlay it mounts included (line 789).
AppIdle ==
    /\ ScannerIdle
    /\ locationInfo = "null"
    /\ viewUrl = NoView
    /\ lockStatus = "UNLOCKED"
    /\ selectedStyle = "Cinematic"
    /\ quotaExceeded = FALSE
    /\ isSystemUpdating = TRUE
    /\ calls = << >>
    /\ regen = IdleRegen
    /\ now = 0
    /\ memoDeps = MemoDepsOf(<< >>, TRUE, FALSE)
    /\ effectDeps = EffectDepsOf(TRUE, "UNLOCKED", "Cinematic")
    /\ userActions = 0
    /\ voice = IdleVoice
    /\ batch = NoBatch
    /\ searchShown = "none"

----------------------------------------------------------------------------
(* Actions *)

Init ==
    /\ history \in SeqsUpTo(HistoryEntry, MaxHistory)
    /\ IdsInFirstUseOrder(history)
    /\ pos \in [1..SliceLen(history) -> Points]
    /\ loading \in BOOLEAN
    /\ imageLoading \in BOOLEAN
    /\ historyMarkers = << >>
    /\ result = << >>
    /\ used = {}
    /\ currentGroup = << >>
    /\ i = 1
    /\ j = 1
    /\ pc = "entry"
    /\ clusters = << >>
    /\ RetryIdle
    /\ AppIdle
    /\ caps = AppCaps

\* Lines 347-358: the guard, the marker list, the empty result and used set.
Enter ==
    /\ pc = "entry"
    /\ IF EarlyReturn(history, loading, imageLoading)
       THEN /\ clusters' = EmptyClusters
            /\ pc' = "done"
            /\ UNCHANGED <<historyMarkers, result, used>>
       ELSE /\ historyMarkers' = HistoryMarkersOf(history, pos)
            /\ result' = << >>
            /\ used' = {}
            /\ pc' = "outer"
            /\ UNCHANGED clusters
    /\ history' = (IF EarlyReturn(history, loading, imageLoading)
                   THEN history
                   ELSE ReceiverAfterSlice(history))
    /\ i' = 1
    /\ UNCHANGED <<pos, loading, imageLoading, currentGroup, j>>
    /\ UNCHANGED outsideMemo

\* Lines 359-362: the outer callback up to the start of the inner loop.
OuterBegin ==
    /\ pc = "outer"
    /\ i <= Len(historyMarkers)
    /\ LET m1 == historyMarkers[i] IN
       IF m1.id \in used
       THEN /\ i' = i + 1
            /\ UNCHANGED <<currentGroup, used, j, pc>>
       ELSE /\ currentGroup' = StartGroup(m1, used).group
            /\ used' = StartGroup(m1, used).used
            /\ j' = 1
            /\ pc' = "inner"
            /\ UNCHANGED i
    /\ UNCHANGED <<inputVars, historyMarkers, result, clusters>>
    /\ UNCHANGED outsideMemo

\* Lines 363-370: one call of the inner callback.
InnerIter ==
    /\ pc = "inner"
    /\ j <= Len(historyMarkers)
    /\ LET st == InnerCallback(historyMarkers[i], historyMarkers[j],
                               [group |-> currentGroup, used |-> used]) IN
       /\ currentGroup' = st.group
       /\ used' = st.used
    /\ j' = j + 1
    /\ UNCHANGED <<inputVars, historyMarkers, result, i, pc, clusters>>
    /\ UNCHANGED outsideMemo

\* Line 371: the inner loop is over, the group is pushed.
OuterEnd ==
    /\ pc = "inner"
    /\ j > Len(historyMarkers)
    /\ result' = PushGroup(result, currentGroup)
    /\ i' = i + 1
    /\ pc' = "outer"
    /\ UNCHANGED <<inputVars, historyMarkers, used, currentGroup, j, clusters>>
    /\ UNCHANGED outsideMemo

\* Line 373: return result.
Return ==
    /\ pc = "outer"
    /\ i > Len(historyMarkers)
    /\ clusters' = result
    /\ pc' = "done"
    /\ UNCHANGED <<inputVars, historyMarkers, result, used, currentGroup, i, j>>
    /\ UNCHANGED outsideMemo

Next == Enter \/ OuterBegin \/ InnerIter \/ OuterEnd \/ Return

Spec == Init /\ [][Next]_vars

\* The same memo on the degenerate positions.
InitDegenerate ==
    /\ history \in SeqsUpTo(HistoryEntry, MaxHistory)
    /\ IdsInFirstUseOrder(history)
    /\ pos \in [1..SliceLen(history) -> DegeneratePoints]
    /\ loading \in BOOLEAN
    /\ imageLoading \in BOOLEAN
    /\ historyMarkers = << >>
    /\ result = << >>
    /\ used = {}
    /\ currentGroup = << >>
    /\ i = 1
    /\ j = 1
    /\ pc = "entry"
    /\ clusters = << >>
    /\ RetryIdle
    /\ AppIdle
    /\ caps = AppCaps

SpecDegenerate == InitDegenerate /\ [][Next]_vars

----------------------------------------------------------------------------
(* withRetry: the steps *)

\* A call withRetry(fn) with the default arguments (line 495).
InitRetry ==
    /\ history = << >>
    /\ pos = << >>
    /\ loading = TRUE
    /\ imageLoading = FALSE
    /\ historyMarkers = << >>
    /\ result = << >>
    /\ used = {}
    /\ currentGroup = << >>
    /\ i = 1
    /\ j = 1
    /\ pc = "entry"
    /\ clusters = << >>
    /\ retries = DEFAULT_RETRIES
    /\ delay = DEFAULT_DELAY
    /\ attempts = << >>
    /\ waits = << >>
    /\ caught = NoOutcome
    /\ settled = [state |-> "pending", with |-> NoOutcome]
    /\ rpc = "call"
    /\ AppIdle
    /\ caps = AppCaps

\* Line 497: fn() is called and settles; a value is returned at once, an
\* error enters the catch block.
Attempt ==
    /\ rpc = "call"
    /\ \E o \in FnOutcomes :
        /\ attempts' = Append(attempts, o)
        /\ IF o.ok
           THEN /\ settled' = [state |-> "resolved", with |-> o]
                /\ rpc' = "done"
                /\ UNCHANGED caught
           ELSE /\ caught' = o
                /\ rpc' = "catch"
                /\ UNCHANGED settled
    /\ UNCHANGED <<retries, delay, waits, memoVars, appVars, holdVars>>

\* Lines 498-508: the catch block up to the timer, or the rethrow.
Catch ==
    /\ rpc = "catch"
    /\ IF retries > 0 /\ IsQuotaError(caught)
       THEN /\ rpc' = "sleep"
            /\ UNCHANGED settled
       ELSE /\ settled' = [state |-> "rejected", with |-> caught]
            /\ rpc' = "done"
    /\ UNCHANGED <<retries, delay, attempts, waits, caught, memoVars, appVars, holdVars>>

\* Lines 505-506: the timer of delay ms fires and withRetry calls itself;
\* its result is the result of the outer invocation.
Wake ==
    /\ rpc = "sleep"
    /\ waits' = Append(waits, delay)
    /\ retries' = RetriesOfRetry(retries)
    /\ delay' = DelayOfRetry(delay)
    /\ rpc' = "call"
    /\ UNCHANGED <<attempts, caught, settled, memoVars, appVars, holdVars>>

NextRetry == Attempt \/ Catch \/ Wake

\* fn settles by hypothesis, and the event loop runs the continuation and
\* the timer.
RetrySpec == InitRetry /\ [][NextRetry]_vars /\ WF_vars(NextRetry)

----------------------------------------------------------------------------
(* App: the handlers. Each action is one handler or one continuation of  *)
(* an async function, with the state updates it batches, followed by the  *)
(* render they cause.                                                      *)

EffectPending ==
    effectDeps # EffectDepsOf(isSystemUpdating, lockStatus, selectedStyle)

\* The render after a batch of updates: the memo callback runs again when
\* one of its dependencies differs from the last run (line 374).
Rendered ==
    LET stale == MemoDepsOf(history', loading', imageLoading') # memoDeps
        early == EarlyReturn(history', loading', imageLoading')
    IN  /\ memoDeps' = MemoDepsOf(history', loading', imageLoading')
        /\ clusters' = IF stale
                       THEN ClustersOf(history', CodePos, loading', imageLoading')
                       ELSE clusters
        /\ historyMarkers' = IF stale /\ ~early
                             THEN HistoryMarkersOf(history', CodePos)
                             ELSE historyMarkers

\* fetchRaiData up to its first await, setLoading(true) apart
\* (lines 133-144).
FetchStarted(target, style, origin) ==
    /\ Len(calls) < caps.calls
    /\ batch' = IF calls = << >>
                THEN NoBatch
                ELSE [batch EXCEPT !.overlap = TRUE, !.lastGone = FALSE,
                                   !.infoByLast = FALSE, !.viewByLast = FALSE]
    /\ quotaExceeded' = FALSE
    /\ lockStatus' = IF IsClassifiedCode(target) THEN "DECRYPTING" ELSE "SCANNING"
    /\ calls' = Append(calls,
                    [cpc    |-> IF IsClassifiedCode(target) THEN "decrypt" ELSE "info",
                     target |-> target,
                     style  |-> style,
                     origin |-> origin])

\* Variant: setLoading(true) is missing.
FetchBegunWithoutLoading(target, style, origin) ==
    /\ FetchStarted(target, style, origin)
    /\ loading' = loading

\* fetchRaiData up to its first await (lines 132-144).
FetchBegun(target, style, origin) ==
    /\ FetchStarted(target, style, origin)
    /\ loading' = TRUE

\* The state after construction (lines 63-90); the first fetch has not been
\* started by anything.
InitApp ==
    /\ history = << >>
    /\ pos = CodePos
    /\ loading = TRUE
    /\ imageLoading = FALSE
    /\ historyMarkers = << >>
    /\ result = << >>
    /\ used = {}
    /\ currentGroup = << >>
    /\ i = 0
    /\ j = 0
    /\ pc = "entry"
    /\ clusters = << >>
    /\ RetryIdle
    /\ AppIdle
    /\ caps = AppCaps

\* setTimeout(() => setIsSystemUpdating(false), 800) (line 124)
SystemUpdateDone ==
    /\ ~EffectPending
    /\ isSystemUpdating
    /\ isSystemUpdating' = FALSE
    /\ UNCHANGED <<history, loading, imageLoading>>
    /\ Rendered
    /\ UNCHANGED <<memoSteps, retryVars, holdVars, batch, voice, caps, locationInfo, viewUrl, lockStatus,
                   selectedStyle, quotaExceeded, calls, regen, now,
                   effectDeps, userActions, searchShown>>

\* BodyLockOverlay onVerify (line 791)
Verify ==
    /\ ~EffectPending
    /\ lockStatus = "UNLOCKED"
    /\ lockStatus' = "LOCKED"
    /\ UNCHANGED <<history, loading, imageLoading>>
    /\ Rendered
    /\ UNCHANGED <<memoSteps, retryVars, holdVars, batch, voice, caps, locationInfo, viewUrl, selectedStyle,
                   quotaExceeded, isSystemUpdating, calls, regen, now,
                   effectDeps, userActions, searchShown>>

\* BotInterface onStatusChange (lines 536-539)
StatusChange(s) ==
    /\ ~EffectPending
    /\ userActions < caps.actions
    /\ quotaExceeded' = IF quotaExceeded /\ s # "OVERRIDE" /\ s # "DECRYPTING"
                        THEN FALSE
                        ELSE quotaExceeded
    /\ lockStatus' = s
    /\ userActions' = userActions + 1
    /\ searchShown' = "none"
    /\ UNCHANGED <<history, loading, imageLoading>>
    /\ Rendered
    /\ UNCHANGED <<memoSteps, retryVars, holdVars, batch, voice, caps, locationInfo, viewUrl, selectedStyle,
                   isSystemUpdating, calls, regen, now, effectDeps>>

\* handleSearch (lines 299-305) with a non-blank query
HandleSearch(query) ==
    /\ ~EffectPending
    /\ userActions < caps.actions
    /\ FetchBegun(query, selectedStyle, "search")
    /\ userActions' = userActions + 1
    /\ searchShown' = "none"
    /\ UNCHANGED <<history, imageLoading>>
    /\ Rendered
    /\ UNCHANGED <<memoSteps, retryVars, holdVars, voice, caps, locationInfo, viewUrl, selectedStyle,
                   isSystemUpdating, regen, now, effectDeps>>

\* The auto-fetch effect (lines 284-288), run after a render in which one of
\* its dependencies changed.
RunEffect ==
    /\ EffectPending
    /\ effectDeps' = EffectDepsOf(isSystemUpdating, lockStatus, selectedStyle)
    /\ IF ~isSystemUpdating /\ lockStatus = "LOCKED"
       THEN /\ FetchBegun(INITIAL_LOCATION, selectedStyle, "auto")
            /\ UNCHANGED <<history, imageLoading>>
            /\ Rendered
       ELSE UNCHANGED <<history, loading, imageLoading, historyMarkers,
                        clusters, quotaExceeded, lockStatus, calls, memoDeps,
                        batch>>
    /\ UNCHANGED <<memoSteps, retryVars, holdVars, voice, caps, locationInfo, viewUrl, selectedStyle,
                   isSystemUpdating, regen, now, userActions, searchShown>>

\* decryptClassifiedCode resolves (lines 145-149)
DecryptDone(k) ==
    /\ ~EffectPending
    /\ k \in 1..Len(calls)
    /\ calls[k].cpc = "decrypt"
    /\ calls' = [calls EXCEPT ![k].cpc = "info",
                              ![k].target = DecryptedName,
                              ![k].style = DecryptedStyle]
    /\ selectedStyle' = DecryptedStyle
    /\ UNCHANGED <<history, loading, imageLoading>>
    /\ Rendered
    /\ UNCHANGED <<memoSteps, retryVars, holdVars, batch, voice, caps, locationInfo, viewUrl, lockStatus,
                   quotaExceeded, isSystemUpdating, regen, now, effectDeps,
                   userActions, searchShown>>

\* generateLocationData resolves (lines 152-153); info.name is the target
InfoDone(k) ==
    /\ ~EffectPending
    /\ k \in 1..Len(calls)
    /\ calls[k].cpc = "info"
    /\ calls' = [calls EXCEPT ![k].cpc = "view"]
    /\ locationInfo' = calls[k].target
    /\ batch' = [batch EXCEPT !.infoByLast = IsLast(k)]
    /\ UNCHANGED <<history, loading, imageLoading>>
    /\ Rendered
    /\ UNCHANGED <<memoSteps, retryVars, holdVars, voice, caps, viewUrl, lockStatus, selectedStyle,
                   quotaExceeded, isSystemUpdating, regen, now, effectDeps,
                   userActions, searchShown>>

\* generate360View resolves (lines 155-158) and the finally block (line 166)
ViewDone(k) ==
    /\ ~EffectPending
    /\ k \in 1..Len(calls)
    /\ calls[k].cpc = "view"
    /\ DateNow <= caps.clock
    /\ viewUrl' = ViewFor(calls[k].target, calls[k].style)
    /\ now' = DateNow
    /\ history' = Prepended([id |-> DateNow], history)
    /\ lockStatus' = "LOCKED"
    /\ loading' = FALSE
    /\ calls' = Settled(calls, k)
    /\ batch' = [batch EXCEPT !.viewByLast = IsLast(k),
                               !.lastGone = @ \/ k = Len(calls)]
    /\ searchShown' = IF calls[k].origin = "search"
                         /\ regen.cpc = "idle"
                         /\ Len(calls) = 1
                      THEN calls[k].target
                      ELSE searchShown
    /\ UNCHANGED imageLoading
    /\ Rendered
    /\ UNCHANGED <<memoSteps, retryVars, holdVars, voice, caps, locationInfo, selectedStyle,
                   quotaExceeded, isSystemUpdating, regen, effectDeps,
                   userActions>>

\* An awaited call of fetchRaiData rejects (lines 159-166)
FetchFailed(k, err) ==
    /\ ~EffectPending
    /\ k \in 1..Len(calls)
    /\ quotaExceeded' = IF IsQuotaError(err) THEN TRUE ELSE quotaExceeded
    /\ lockStatus' = "OVERRIDE"
    /\ loading' = FALSE
    /\ calls' = Settled(calls, k)
    /\ batch' = [batch EXCEPT !.failed = TRUE,
                               !.lastGone = @ \/ k = Len(calls)]
    /\ UNCHANGED <<history, imageLoading>>
    /\ Rendered
    /\ UNCHANGED <<memoSteps, retryVars, holdVars, voice, caps, locationInfo, viewUrl, selectedStyle,
                   isSystemUpdating, regen, now, effectDeps, userActions,
                   searchShown>>

\* regenerateImage up to its await (lines 263-268); the button is disabled
\* while loading or imageLoading (line 714)
RegenerateImage ==
    /\ ~EffectPending
    /\ userActions < caps.actions
    /\ ~(loading \/ imageLoading)
    /\ locationInfo # "null"
    /\ imageLoading' = TRUE
    /\ quotaExceeded' = FALSE
    /\ regen' = [cpc |-> "view", name |-> locationInfo, style |-> selectedStyle]
    /\ userActions' = userActions + 1
    /\ searchShown' = "none"
    /\ UNCHANGED <<history, loading>>
    /\ Rendered
    /\ UNCHANGED <<memoSteps, retryVars, holdVars, batch, voice, caps, locationInfo, viewUrl, lockStatus,
                   selectedStyle, isSystemUpdating, calls, now, effectDeps>>

\* generate360View resolves in regenerateImage (lines 269-272, 280)
RegenDone ==
    /\ ~EffectPending
    /\ regen.cpc = "view"
    /\ DateNow <= caps.clock
    /\ viewUrl' = ViewFor(regen.name, regen.style)
    /\ now' = DateNow
    /\ history' = Prepended([id |-> DateNow], history)
    /\ lockStatus' = "LOCKED"
    /\ imageLoading' = FALSE
    /\ regen' = IdleRegen
    /\ UNCHANGED loading
    /\ Rendered
    /\ UNCHANGED <<memoSteps, retryVars, holdVars, batch, voice, caps, locationInfo, selectedStyle,
                   quotaExceeded, isSystemUpdating, calls, effectDeps,
                   userActions, searchShown>>

\* generate360View rejects in regenerateImage (lines 273-280)
RegenFailed(err) ==
    /\ ~EffectPending
    /\ regen.cpc = "view"
    /\ quotaExceeded' = IF IsQuotaError(err) THEN TRUE ELSE quotaExceeded
    /\ lockStatus' = "OVERRIDE"
    /\ imageLoading' = FALSE
    /\ regen' = IdleRegen
    /\ UNCHANGED <<history, loading>>
    /\ Rendered
    /\ UNCHANGED <<memoSteps, retryVars, holdVars, batch, voice, caps, locationInfo, viewUrl, selectedStyle,
                   isSystemUpdating, calls, now, effectDeps, userActions,
                   searchShown>>

NextApp ==
    \/ SystemUpdateDone
    \/ Verify
    \/ \E s \in LockStatuses : StatusChange(s)
    \/ \E query \in SearchQueries : HandleSearch(query)
    \/ RunEffect
    \/ \E k \in Slots : DecryptDone(k)
    \/ \E k \in Slots : InfoDone(k)
    \/ \E k \in Slots : ViewDone(k)
    \/ \E k \in Slots, err \in ApiErrors : FetchFailed(k, err)
    \/ RegenerateImage
    \/ RegenDone
    \/ \E err \in ApiErrors : RegenFailed(err)

AppSpec == InitApp /\ [][NextApp]_vars

----------------------------------------------------------------------------
(* App: the voice command (lines 187-232). One command at a time.          *)

\* The same construction, with the bounds of OverlapSpec.
InitOverlap ==
    /\ history = << >>
    /\ pos = CodePos
    /\ loading = TRUE
    /\ imageLoading = FALSE
    /\ historyMarkers = << >>
    /\ result = << >>
    /\ used = {}
    /\ currentGroup = << >>
    /\ i = 0
    /\ j = 0
    /\ pc = "entry"
    /\ clusters = << >>
    /\ RetryIdle
    /\ AppIdle
    /\ caps = OverlapCaps

\* startRecording (lines 187-240): the handler made here closes over the
\* selectedStyle and locationInfo of this render.
StartRecording ==
    /\ ~EffectPending
    /\ userActions < caps.actions
    /\ voice.vpc = "idle"
    /\ voice' = [vpc |-> "recording", style |-> selectedStyle, info |-> locationInfo]
    /\ userActions' = userActions + 1
    /\ searchShown' = "none"
    /\ UNCHANGED <<history, loading, imageLoading>>
    /\ Rendered
    /\ UNCHANGED <<memoSteps, retryVars, holdVars, batch, caps, locationInfo, viewUrl, lockStatus,
                   selectedStyle, quotaExceeded, isSystemUpdating, calls,
                   regen, now, effectDeps>>

\* stopRecording, then reader.onloadend up to its first await (lines 197-201)
StopRecording ==
    /\ ~EffectPending
    /\ voice.vpc = "recording"
    /\ voice' = [voice EXCEPT !.vpc = "transcribe"]
    /\ loading' = TRUE
    /\ UNCHANGED <<history, imageLoading>>
    /\ Rendered
    /\ UNCHANGED <<memoSteps, retryVars, holdVars, batch, caps, locationInfo, viewUrl, lockStatus,
                   selectedStyle, quotaExceeded, isSystemUpdating, calls,
                   regen, now, effectDeps, userActions, searchShown>>

\* transcribeAudio resolves (lines 201-204)
Transcribed ==
    /\ ~EffectPending
    /\ voice.vpc = "transcribe"
    /\ voice' = [voice EXCEPT !.vpc = "process"]
    /\ UNCHANGED <<history, loading, imageLoading>>
    /\ Rendered
    /\ UNCHANGED <<memoSteps, retryVars, holdVars, batch, caps, locationInfo, viewUrl, lockStatus,
                   selectedStyle, quotaExceeded, isSystemUpdating, calls,
                   regen, now, effectDeps, userActions, searchShown>>

\* processVoiceCommand resolves with NAVIGATE (lines 207-208): fetchRaiData
\* is called and not awaited, and the finally block runs (line 230)
VoiceNavigate(target) ==
    /\ ~EffectPending
    /\ voice.vpc = "process"
    /\ FetchStarted(target, voice.style, "voice")
    /\ loading' = FALSE
    /\ voice' = IdleVoice
    /\ UNCHANGED <<history, imageLoading>>
    /\ Rendered
    /\ UNCHANGED <<memoSteps, retryVars, holdVars, caps, locationInfo, viewUrl,
                   selectedStyle, isSystemUpdating, regen, now, effectDeps,
                   userActions, searchShown>>

\* processVoiceCommand resolves with CHANGE_STYLE and a known style
\* (lines 216-226), and the finally block runs (line 230)
VoiceChangeStyle(style) ==
    /\ ~EffectPending
    /\ voice.vpc = "process"
    /\ selectedStyle' = style
    /\ IF voice.info # "null"
       THEN FetchStarted(voice.info, style, "voice")
       ELSE UNCHANGED <<quotaExceeded, lockStatus, calls, batch>>
    /\ loading' = FALSE
    /\ voice' = IdleVoice
    /\ UNCHANGED <<history, imageLoading>>
    /\ Rendered
    /\ UNCHANGED <<memoSteps, retryVars, holdVars, caps, locationInfo, viewUrl,
                   isSystemUpdating, regen, now, effectDeps, userActions,
                   searchShown>>

\* The handler ends without a fetch: processVoiceCommand resolves with a
\* command that starts none (SELECT_MARKER, an unknown style, no action),
\* or transcribeAudio or processVoiceCommand rejects (lines 209-215,
\* 227-231); the finally block runs
VoiceEnded ==
    /\ ~EffectPending
    /\ voice.vpc \in {"transcribe", "process"}
    /\ loading' = FALSE
    /\ voice' = IdleVoice
    /\ UNCHANGED <<history, imageLoading>>
    /\ Rendered
    /\ UNCHANGED <<memoSteps, retryVars, holdVars, batch, caps, locationInfo, viewUrl, lockStatus,
                   selectedStyle, quotaExceeded, isSystemUpdating, calls,
                   regen, now, effectDeps, userActions, searchShown>>

NextOverlap ==
    \/ SystemUpdateDone
    \/ Verify
    \/ \E query \in SearchQueries : HandleSearch(query)
    \/ RunEffect
    \/ \E k \in Slots : DecryptDone(k)
    \/ \E k \in Slots : InfoDone(k)
    \/ \E k \in Slots : ViewDone(k)
    \/ \E k \in Slots, err \in ApiErrors : FetchFailed(k, err)
    \/ StartRecording
    \/ StopRecording
    \/ Transcribed
    \/ \E target \in VoiceTargets : VoiceNavigate(target)
    \/ \E style \in Styles : VoiceChangeStyle(style)
    \/ VoiceEnded

OverlapSpec == InitOverlap /\ [][NextOverlap]_vars

----------------------------------------------------------------------------
(* BodyLockOverlay: the hold-to-sync scanner (unnamed/part_000:282-311) *)

\* A state update and the render it causes are one step; the effect of that
\* render runs in a later step (FlushEffect), and React runs a pending effect
\* before it renders again, so a handler that finds the effect due runs it
\* first, with the values of the render the effect belongs to.

\* The number of setTimeout(onVerify, 1000) pending together.
MaxTimeouts == 2

FULL == 100
TICK_GAIN == 2
DECAY == 5

\* Math.max(0, n) (line 303)
Max0(n) == IF n > 0 THEN n ELSE 0

\* The test of the effect (line 289), on the values of its render.
Restarts == isPressing /\ progress < FULL

\* The else branch of the effect queues prev => Math.max(0, prev - 5)
\* (lines 302-304).
Decays == ~Restarts /\ ~scanComplete

\* The updater of the interval (lines 291-299) on prev.
Ticked(prev) == IF prev >= FULL THEN FULL ELSE prev + TICK_GAIN

\* progress once the due effect, if any, has run after the handler's own
\* update gave p.
AfterEffect(p) == IF effectDue /\ Decays THEN Max0(p - DECAY) ELSE p

\* timerRef once the due effect, if any, has run: its cleanup clears the
\* interval (lines 307-309), its first branch sets a new one (line 290).
TimerAfterEffect == IF effectDue THEN Restarts ELSE timerRef

appButLock == <<locationInfo, viewUrl, selectedStyle, quotaExceeded,
                isSystemUpdating, calls, regen, now, memoDeps, effectDeps,
                userActions, voice, caps, batch, searchShown>>

\* The App and its overlay after construction.
InitHold ==
    /\ history = << >>
    /\ pos = CodePos
    /\ loading = TRUE
    /\ imageLoading = FALSE
    /\ historyMarkers = << >>
    /\ result = << >>
    /\ used = {}
    /\ currentGroup = << >>
    /\ i = 0
    /\ j = 0
    /\ pc = "entry"
    /\ clusters = << >>
    /\ RetryIdle
    /\ AppIdle
    /\ caps = AppCaps

\* onMouseDown, onTouchStart (lines 363, 366); the overlay takes no pointer
\* events once the status is LOCKED (line 316).
Press ==
    /\ ~isPressing
    /\ lockStatus # "LOCKED"
    /\ isPressing' = TRUE
    /\ progress' = AfterEffect(progress)
    /\ timerRef' = TimerAfterEffect
    /\ effectDue' = TRUE
    /\ UNCHANGED <<scanComplete, timeouts, lockStatus, appButLock, memoVars, retryVars>>

\* onMouseUp, onMouseLeave, onTouchEnd (lines 364, 365, 367)
Release ==
    /\ isPressing
    /\ lockStatus # "LOCKED"
    /\ isPressing' = FALSE
    /\ progress' = AfterEffect(progress)
    /\ timerRef' = TimerAfterEffect
    /\ effectDue' = TRUE
    /\ UNCHANGED <<scanComplete, timeouts, lockStatus, appButLock, memoVars, retryVars>>

\* The effect of the last render runs (lines 288-310): the cleanup of the
\* effect before it, then the body.
FlushEffect ==
    /\ effectDue
    /\ timerRef' = Restarts
    /\ progress' = AfterEffect(progress)
    /\ effectDue' = (progress' # progress)
    /\ UNCHANGED <<isPressing, scanComplete, timeouts, lockStatus, appButLock, memoVars, retryVars>>

\* The interval fires (lines 291-300) after the effect that set it.
Tick ==
    /\ timerRef
    /\ ~effectDue
    /\ progress < FULL \/ timeouts < MaxTimeouts
    /\ progress' = Ticked(progress)
    /\ scanComplete' = (scanComplete \/ progress >= FULL)
    /\ timeouts' = IF progress >= FULL THEN timeouts + 1 ELSE timeouts
    /\ timerRef' = (timerRef /\ progress < FULL)
    /\ effectDue' = TRUE
    /\ UNCHANGED <<isPressing, lockStatus, appButLock, memoVars, retryVars>>

\* The interval fires again before the effect of the render its last tick
\* caused has run and cleared it.
StaleTick ==
    /\ timerRef
    /\ effectDue
    /\ progress < FULL \/ timeouts < MaxTimeouts
    /\ progress' = AfterEffect(Ticked(progress))
    /\ scanComplete' = (scanComplete \/ progress >= FULL)
    /\ timeouts' = IF progress >= FULL THEN timeouts + 1 ELSE timeouts
    /\ timerRef' = Restarts
    /\ effectDue' = TRUE
    /\ UNCHANGED <<isPressing, lockStatus, appButLock, memoVars, retryVars>>

\* A timeout fires: onVerify (App.tsx:791) sets lockStatus; the App renders
\* again if that changed it, and hands the overlay a new onVerify, which is
\* a dependency of the effect (line 311).
VerifyFired ==
    /\ timeouts > 0
    /\ timeouts' = timeouts - 1
    /\ lockStatus' = "LOCKED"
    /\ IF lockStatus # "LOCKED"
       THEN /\ progress' = AfterEffect(progress)
            /\ timerRef' = TimerAfterEffect
            /\ effectDue' = TRUE
       ELSE UNCHANGED <<progress, timerRef, effectDue>>
    /\ UNCHANGED <<isPressing, scanComplete, appButLock, memoVars, retryVars>>

NextHold ==
    \/ Press
    \/ Release
    \/ FlushEffect
    \/ Tick
    \/ StaleTick
    \/ VerifyFired

\* Effects, intervals and timeouts run when they are due; nothing makes the
\* user press or release, and nothing makes the interval win the race with
\* the effect that clears it.
HoldSpec ==
    /\ InitHold
    /\ [][NextHold]_vars
    /\ WF_vars(FlushEffect)
    /\ WF_vars(Tick)
    /\ WF_vars(VerifyFired)

----------------------------------------------------------------------------
(* Vocabulary of the properties *)

\* The memo ran the grouping loops to the end (no early return).
Grouped == pc = "done" /\ ~EarlyReturn(history, loading, imageLoading)

\* A group as the list of map indices of its members.
IdxOf(group) == [k \in 1..Len(group) |-> group[k].idx]

\* The returned groups as lists of map indices.
ClusterIdx == [g \in 1..Len(clusters) |-> IdxOf(clusters[g])]

\* The places (group, position) of the output that hold the marker m.
PlacesOf(groups, m) ==
    { gp \in (1..Len(groups)) \X (1..Len(historyMarkers)) :
        /\ gp[2] <= Len(groups[gp[1]])
        /\ groups[gp[1]][gp[2]] = m }

MarkerSet == { historyMarkers[k] : k \in 1..Len(historyMarkers) }

DistinctIds ==
    \A a, b \in 1..Len(historyMarkers) :
        a # b => historyMarkers[a].id # historyMarkers[b].id

\* The groups built so far: the pushed ones and, inside the inner loop, the
\* one under construction.
GroupsSoFar ==
    IF pc = "inner" THEN Append(result, currentGroup) ELSE result

\* Squared Euclidean distance and the strict test against 12, written out.
SqDist(a, b) == (a.x - b.x) * (a.x - b.x) + (a.y - b.y) * (a.y - b.y)

Closer12(a, b) == SqDist(a, b) < 144

----------------------------------------------------------------------------
(* C1 *)

\* C1: when the grouping has run, every input marker occurs at exactly one
\* place of the returned groups (no omission, no duplicate).
C1_Partition ==
    Grouped =>
        \A m \in MarkerSet : Cardinality(PlacesOf(clusters, m)) = 1

\* The same statement restricted to marker lists whose ids are pairwise
\* distinct.
C1_PartitionOnDistinctIds ==
    (Grouped /\ DistinctIds) =>
        \A m \in MarkerSet : Cardinality(PlacesOf(clusters, m)) = 1

\* No marker ever occurs twice, whatever the ids.
C1_NoDuplicates ==
    \A m \in MarkerSet : Cardinality(PlacesOf(GroupsSoFar, m)) <= 1

----------------------------------------------------------------------------
(* C2 *)

InputABC == <<Point(0, 0), Point(10, 0), Point(20, 0)>>

C2_Case == Grouped /\ pos = InputABC /\ DistinctIds

\* C2: for A(0,0), B(10,0), C(20,0) in this order the groups are [[A,B],[C]]
\* and not [[A,B,C]], although C is closer than 12 to B.
C2_NonTransitive ==
    C2_Case =>
        /\ ClusterIdx = << <<0, 1>>, <<2>> >>
        /\ ClusterIdx # << <<0, 1, 2>> >>
        /\ Closer12(historyMarkers[2], historyMarkers[3])

C2_Witness == C2_Case /\ Len(clusters) = 2

----------------------------------------------------------------------------
(* C3 *)

\* C3: in every group, pushed, under construction or returned, every member
\* after the first is strictly closer than 12 to the first member.
C3_AnchorOnly ==
    \A groups \in {GroupsSoFar, clusters} :
        \A g \in 1..Len(groups) :
            \A k \in 2..Len(groups[g]) :
                Closer12(groups[g][1], groups[g][k])

\* A returned group with a non-anchor member that is close to a marker the
\* group does not hold.
C3_Witness ==
    /\ Grouped
    /\ \E g \in 1..Len(clusters) :
        \E k \in 2..Len(clusters[g]) :
            \E m \in MarkerSet :
                /\ Closer12(clusters[g][k], m)
                /\ ~Closer12(clusters[g][1], m)
                /\ \A n \in 1..Len(clusters[g]) : clusters[g][n] # m

----------------------------------------------------------------------------
(* C4 *)

\* The members of the groups returned before group g.
ClaimedMembersBefore(g) ==
    { m \in MarkerSet :
        \E h \in 1..(g - 1) : \E k \in 1..Len(clusters[h]) : clusters[h][k] = m }

\* The ids marked used when the anchor of group g was reached.
UsedIdsBefore(g) == { m.id : m \in ClaimedMembersBefore(g) }

\* C4 as stated: a returned group is a singleton iff its marker was not
\* within the threshold of any marker claimed by an earlier group.
C4_SingletonIffFarFromClaimed ==
    Grouped =>
        \A g \in 1..Len(clusters) :
            (Len(clusters[g]) = 1) <=>
                ~ \E m \in ClaimedMembersBefore(g) : Closer12(clusters[g][1], m)

\* C4 amended: a returned group is a singleton iff, when its anchor was
\* processed, no other marker with a not yet used id was strictly closer
\* than 12 to the anchor.
C4_SingletonIffNoUnusedNear ==
    Grouped =>
        \A g \in 1..Len(clusters) :
            (Len(clusters[g]) = 1) <=>
                ~ \E m \in MarkerSet :
                    /\ m.id \notin UsedIdsBefore(g) \cup {clusters[g][1].id}
                    /\ Closer12(clusters[g][1], m)

\* A singleton group whose marker is close to a marker of an earlier group,
\* next to a group that has absorbed a marker.
C4_Witness ==
    /\ Grouped
    /\ \E g \in 1..Len(clusters) :
        /\ Len(clusters[g]) = 1
        /\ \E m \in ClaimedMembersBefore(g) : Closer12(clusters[g][1], m)
    /\ \E g \in 1..Len(clusters) : Len(clusters[g]) > 1

----------------------------------------------------------------------------
(* C5 *)

InputTwelveApart == <<Point(0, 0), Point(12, 0)>>

C5_Case == Grouped /\ pos = InputTwelveApart /\ DistinctIds

\* C5: a marker whose id is not yet used is appended to the current group by
\* the inner callback exactly when it is strictly closer than 12 to the
\* anchor, and (0,0), (12,0) end in two groups.
C5_StrictThreshold ==
    /\ [][ (pc = "inner" /\ j <= Len(historyMarkers)
              /\ historyMarkers[j].id \notin used)
           => ( (currentGroup' = Append(currentGroup, historyMarkers[j]))
                <=> Closer12(historyMarkers[i], historyMarkers[j]) ) ]_vars
    /\ [](C5_Case => ClusterIdx = << <<0>>, <<1>> >>)

C5_Witness == C5_Case /\ Len(clusters) = 2

----------------------------------------------------------------------------
(* C6 *)

InputBAC == <<Point(10, 0), Point(0, 0), Point(20, 0)>>

C6_Case == Grouped /\ pos = InputBAC /\ DistinctIds

\* C6: the order [A,B,C] gives the two groups [[A,B],[C]], the order
\* [B,A,C] of the same markers gives the single group [[B,A,C]].
C6_OrderDependence ==
    /\ C2_Case => ClusterIdx = << <<0, 1>>, <<2>> >>
    /\ C6_Case => ClusterIdx = << <<0, 1, 2>> >>

C6_Witness == C6_Case /\ Len(clusters) = 1

----------------------------------------------------------------------------
(* C7 *)

InputMerge == <<Point(0, 0), Point(1, 1), Point(50, 50)>>

C7_Case == Grouped /\ pos = InputMerge /\ DistinctIds

\* C7: A(0,0), B(1,1), C(50,50) in this order give exactly [[A,B],[C]].
C7_Merge == C7_Case => ClusterIdx = << <<0, 1>>, <<2>> >>

C7_Witness == C7_Case /\ Len(clusters[1]) = 2

----------------------------------------------------------------------------
(* C8 *)

AllApart ==
    \A a, b \in 1..Len(historyMarkers) :
        a # b => SqDist(historyMarkers[a], historyMarkers[b]) > 144

\* C8: when all pairwise distances exceed 12, the output is one singleton
\* group per marker, in input order.
C8_Isolation ==
    (Grouped /\ AllApart) =>
        ClusterIdx = [k \in 1..Len(historyMarkers) |-> <<k - 1>>]

\* The same statement restricted to pairwise distinct ids.
C8_IsolationOnDistinctIds ==
    (Grouped /\ AllApart /\ DistinctIds) =>
        ClusterIdx = [k \in 1..Len(historyMarkers) |-> <<k - 1>>]

----------------------------------------------------------------------------
(* C9 *)

\* C9: the anchors of successive groups, and the members of each group,
\* are in strictly increasing input position; so groups follow the input
\* order of their anchors, the anchor is the earliest member, and the other
\* members follow in input order.
C9_Order ==
    \A groups \in {GroupsSoFar, clusters} :
        /\ \A g \in 1..(Len(groups) - 1) :
               groups[g][1].idx < groups[g + 1][1].idx
        /\ \A g \in 1..Len(groups) :
               \A k \in 1..(Len(groups[g]) - 1) :
                   groups[g][k].idx < groups[g][k + 1].idx

\* Two groups returned, the first with an anchor and a later member.
C9_Witness ==
    /\ Grouped
    /\ Len(clusters) >= 2
    /\ Len(clusters[1]) >= 2

----------------------------------------------------------------------------
(* C10 *)

\* C10: when the marker list is empty (the history has at most one entry)
\* the memo returns the empty list.
C10_EmptyInput ==
    (pc = "done" /\ SliceLen(history) = 0) => clusters = << >>

C10_Witness ==
    /\ pc = "done"
    /\ Len(history) <= 1
    /\ ~loading
    /\ ~imageLoading
    /\ SliceLen(history) = 0

----------------------------------------------------------------------------
(* C11 *)

C11_Case == Grouped /\ Len(historyMarkers) = 1

\* C11: a list of exactly one marker m gives exactly one group, holding
\* only m.
C11_SingleMarker ==
    C11_Case =>
        /\ Len(clusters) = 1
        /\ clusters[1] = <<historyMarkers[1]>>

C11_Witness == C11_Case /\ Len(history) = 2 /\ Len(clusters) = 1

----------------------------------------------------------------------------
(* C13 *)

HasNaN(m) == IsNaN(m.x) \/ IsNaN(m.y)

\* C13: when the grouping has run, every marker with a NaN coordinate is a
\* group of its own and occurs nowhere else, and every other marker occurs
\* at exactly one place of the returned groups.
C13_NaNSingleton ==
    Grouped =>
        \A m \in MarkerSet :
            /\ Cardinality(PlacesOf(clusters, m)) = 1
            /\ HasNaN(m) => \E g \in 1..Len(clusters) : clusters[g] = <<m>>

\* The same statement restricted to pairwise distinct ids.
C13_NaNSingletonOnDistinctIds ==
    (Grouped /\ DistinctIds) =>
        \A m \in MarkerSet :
            /\ Cardinality(PlacesOf(clusters, m)) = 1
            /\ HasNaN(m) => \E g \in 1..Len(clusters) : clusters[g] = <<m>>

\* Whatever the ids: a marker with a NaN coordinate that is in a group is
\* alone in it.
C13_NaNNeverGrouped ==
    \A groups \in {GroupsSoFar, clusters} :
        \A g \in 1..Len(groups) :
            (\E k \in 1..Len(groups[g]) : HasNaN(groups[g][k]))
                => Len(groups[g]) = 1

----------------------------------------------------------------------------
(* C14 *)

\* Two markers at the two ends of the panorama, on the same height.
EndsOfPanorama(a, b) ==
    /\ ~HasNaN(a)
    /\ ~HasNaN(b)
    /\ a.y = b.y
    /\ {a.x, b.x} = {0, 99}

\* C14: no group, pushed, under construction or returned, has an anchor at
\* x = 0 (or 99) and a member at x = 99 (or 0) on the same height.
C14_NoWraparound ==
    \A groups \in {GroupsSoFar, clusters} :
        \A g \in 1..Len(groups) :
            \A k \in 2..Len(groups[g]) :
                ~EndsOfPanorama(groups[g][1], groups[g][k])

\* Both ends are anchors of returned groups, one after the other in the
\* input.
C14_Witness ==
    /\ Grouped
    /\ \E g, h \in 1..Len(clusters) :
        /\ g # h
        /\ EndsOfPanorama(clusters[g][1], clusters[h][1])

----------------------------------------------------------------------------
(* C15 *)

\* C15: no step of the memo changes the history, the flags or the positions,
\* and once the marker list is built no step changes it.
C15_NoSideEffects ==
    [][ /\ history' = history
        /\ loading' = loading
        /\ imageLoading' = imageLoading
        /\ pos' = pos
        /\ (pc # "entry" => historyMarkers' = historyMarkers) ]_vars

\* The memo has grouped at least two markers and the history is still there.
C15_Witness ==
    /\ Grouped
    /\ Len(history) >= 3
    /\ Len(historyMarkers) = Len(history) - 1
    /\ \E g \in 1..Len(clusters) : Len(clusters[g]) >= 2

----------------------------------------------------------------------------
(* C16 *)

\* C16: in every state of the application the marker list the memo callback
\* was last run on has at most 10 markers, and when the callback did not
\* return early they are made, in order, from the history entries at
\* indices 1 to 10 (the second newest to the eleventh newest).
C16_BoundedInput ==
    /\ Len(historyMarkers) <= 10
    /\ ~EarlyReturn(history, loading, imageLoading) =>
          /\ Len(historyMarkers) = Min(Len(history) - 1, 10)
          /\ \A k \in 1..Len(historyMarkers) :
                /\ historyMarkers[k].idx = k - 1
                /\ historyMarkers[k].id = history[k + 1].id

\* The history holds more entries than the memo reads and the memo has
\* clustered ten markers.
C16_Witness ==
    /\ Len(history) >= 12
    /\ ~EarlyReturn(history, loading, imageLoading)
    /\ Len(historyMarkers) = 10
    /\ clusters # << >>

----------------------------------------------------------------------------
(* C17 *)

\* C17: in every rendered state the cluster list is the greedy clustering of
\* the markers of the current history when neither flag is set and the
\* history has more than one entry, and the empty list otherwise.
C17_ClustersDerived ==
    clusters = IF ~loading /\ ~imageLoading /\ Len(history) > 1
               THEN OuterLoop(HistoryMarkersOf(history, CodePos), 1, << >>, {})
               ELSE << >>

\* A regeneration is in flight after the memo had grouped two markers: the
\* change of imageLoading has emptied the cluster list.
C17_Witness ==
    /\ imageLoading
    /\ ~loading
    /\ Len(history) >= 7
    /\ \E g \in 1..Len(OuterLoop(HistoryMarkersOf(history, CodePos), 1, << >>, {})) :
          Len(OuterLoop(HistoryMarkersOf(history, CodePos), 1, << >>, {})[g]) >= 2
    /\ clusters = << >>

----------------------------------------------------------------------------
(* C18 *)

\* C18: once a search of the user has completed successfully, and until the
\* user acts again, the location info and the image shown are the ones
\* returned for the searched name and no fetch is in flight.
C18_SearchedLocationStays ==
    searchShown # "none" =>
        /\ locationInfo = searchShown
        /\ viewUrl.target = searchShown
        /\ calls = << >>

\* C18, at the moment the search completes: what is shown is what was
\* returned for the searched name.
C18_ShownAtCompletion ==
    [][ (searchShown = "none" /\ searchShown' # "none") =>
            /\ locationInfo' = searchShown'
            /\ viewUrl'.target = searchShown' ]_vars

\* A search of the user has completed and the application has started a
\* fetch of INITIAL_LOCATION by itself.
C18_AutoFetchAfterSearch ==
    /\ searchShown # "none"
    /\ Len(calls) = 1
    /\ calls[1].origin = "auto"
    /\ calls[1].target = INITIAL_LOCATION

----------------------------------------------------------------------------
(* C19 *)

\* C19: with the default arguments fn is called at most 3 times, 2000 ms
\* elapse before the second call and 4000 ms before the third, and the
\* promise settles.
C19_RetryBound ==
    /\ [](/\ Len(attempts) <= 3
          /\ Len(waits) <= 2
          /\ Len(waits) <= Len(attempts)
          /\ Len(attempts) <= Len(waits) + 1
          /\ (Len(waits) >= 1 => waits[1] = 2000)
          /\ (Len(waits) >= 2 => waits[2] = 4000))
    /\ <>(rpc = "done" /\ settled.state # "pending")

\* Three calls were made and the promise has settled.
C19_Witness ==
    /\ rpc = "done"
    /\ Len(attempts) = 3
    /\ waits = <<2000, 4000>>

----------------------------------------------------------------------------
(* C20 *)

\* The message holds none of '429', 'quota', 'EXHAUSTED'.
HoldsNoQuotaWord(err) ==
    \A needle \in {Str429, StrQuota, StrExhausted} :
        ~(err.message.defined /\ Includes(err.message.text, needle))

\* C20: an error without quota word in the catch block is rethrown at
\* once, with no further call of fn and no timer; when it is the error of
\* the first call, the promise is rejected with it after one call and no
\* wait.
C20_OnlyQuotaRetried ==
    /\ [][ (rpc = "catch" /\ HoldsNoQuotaWord(caught))
           => /\ rpc' = "done"
              /\ settled' = [state |-> "rejected", with |-> caught]
              /\ attempts' = attempts
              /\ waits' = waits ]_vars
    /\ []( ( /\ rpc = "done"
             /\ ~attempts[1].ok
             /\ HoldsNoQuotaWord(attempts[1]) )
           => /\ Len(attempts) = 1
              /\ waits = << >>
              /\ settled = [state |-> "rejected", with |-> attempts[1]] )

\* The first call failed with the message "Quota", which is no quota word.
C20_Witness ==
    /\ rpc = "done"
    /\ Len(attempts) = 1
    /\ attempts[1].message = Message(<<"Q", "u", "o", "t", "a">>)
    /\ settled.state = "rejected"

----------------------------------------------------------------------------
(* C21 *)

\* Every call of fn so far failed with a message holding a quota word.
AllQuotaFailures ==
    \A k \in 1..Len(attempts) :
        ~attempts[k].ok /\ ~HoldsNoQuotaWord(attempts[k])

\* C21: a call of fn that succeeds is the last one and the promise is
\* resolved with its value; no call of fn follows the settlement; when every
\* call failed with a quota error the promise is rejected, with the error
\* of the last call, after the first call and the two retries.
C21_RetryOutcome ==
    /\ [](\A k \in 1..Len(attempts) :
            attempts[k].ok
            => /\ k = Len(attempts)
               /\ rpc = "done"
               /\ settled = [state |-> "resolved", with |-> attempts[k]])
    /\ [][ settled.state # "pending" => attempts' = attempts ]_vars
    /\ []( (rpc = "done" /\ AllQuotaFailures)
           => /\ Len(attempts) = 1 + DEFAULT_RETRIES
              /\ settled = [state |-> "rejected",
                            with |-> attempts[Len(attempts)]] )
    /\ []( (Len(attempts) = 1 + DEFAULT_RETRIES /\ AllQuotaFailures)
           => <>(settled.state = "rejected") )

\* Three calls failed with quota errors, the last one with another error
\* than the first, and the promise is rejected with the last one.
C21_Witness ==
    /\ rpc = "done"
    /\ Len(attempts) = 3
    /\ AllQuotaFailures
    /\ attempts[3] # attempts[1]
    /\ settled = [state |-> "rejected", with |-> attempts[3]]

\* The second call succeeded after a quota error and its value is returned.
C21_WitnessResolved ==
    /\ rpc = "done"
    /\ Len(attempts) = 2
    /\ attempts[2].ok
    /\ settled = [state |-> "resolved", with |-> attempts[2]]

----------------------------------------------------------------------------
(* C22 *)

\* C22: in the groups pushed, under construction and returned, the first
\* members of two different groups are never strictly closer than 12.
C22_AnchorsApart ==
    \A groups \in {GroupsSoFar, clusters} :
        \A g, h \in 1..Len(groups) :
            g # h => ~Closer12(groups[g][1], groups[h][1])

\* Two groups were returned, and a non-anchor member of one is strictly
\* closer than 12 to the anchor of the other.
C22_Witness ==
    /\ Grouped
    /\ \E g, h \in 1..Len(clusters) :
        /\ g # h
        /\ \E k \in 2..Len(clusters[g]) :
              Closer12(clusters[g][k], clusters[h][1])

----------------------------------------------------------------------------
(* C23 *)

\* A step in which a fetchRaiData or regenerateImage call finishes.
CallFinishes ==
    \/ Len(calls') < Len(calls)
    \/ (regen.cpc # "idle" /\ regen'.cpc = "idle")

\* The history has got one new first entry and has lost at most its 20th.
OnePrepended ==
    /\ Len(history') = Min(Len(history) + 1, 20)
    /\ \A k \in 2..Len(history') : history'[k] = history[k - 1]
    /\ \A k \in 1..Len(history) : history'[1].id > history[k].id

----------------------------------------------------------------------------
(* C24 *)

\* A step in which a fetchRaiData call starts, and the record of the call.
CallStarts == Len(calls') > Len(calls)

Started == calls'[Len(calls')]

\* The call that finishes in a step in which a fetchRaiData call finishes.
Finishing == CHOOSE k \in 1..Len(calls) : calls' = Settled(calls, k)

----------------------------------------------------------------------------
(* C25 *)

\* A step in which a fetchRaiData call finishes with a failure.
CallFails == Len(calls') < Len(calls) /\ history' = history

\* A step in which a fetchRaiData call goes on after an await.
CallContinues == Len(calls') = Len(calls) /\ calls' # calls

\* C25: a fetchRaiData call changes none of locationInfo, viewUrl,
\* selectedStyle and history before it has succeeded: not in a step after
\* which it still awaits a service call, which can reject, and not in the
\* step in which it fails. The values at the failure are then those of the
\* start of the call.
C25_NoPartialUpdate ==
    [][ (CallContinues \/ CallFails) =>
            /\ locationInfo' = locationInfo
            /\ viewUrl' = viewUrl
            /\ selectedStyle' = selectedStyle
            /\ history' = history ]_vars

\* C25, the part that holds: viewUrl and history change only in the step
\* in which a call finishes with success.
C25_ViewAndHistoryKept ==
    [][ (viewUrl' # viewUrl \/ history' # history)
        => (CallFinishes /\ lockStatus' = "LOCKED") ]_vars

\* A call that was alone in flight has failed after generateLocationData
\* resolved: the location info is the new one, the image the old one.
C25_InfoWithoutView ==
    /\ calls = << >>
    /\ lockStatus = "OVERRIDE"
    /\ locationInfo = "Arctic Satellite Array"
    /\ viewUrl = NoView
    /\ history = << >>

----------------------------------------------------------------------------
(* C26 *)

\* Calls that were in flight together have all finished, with success.
OverlappedAllDone == calls = << >> /\ batch.overlap /\ ~batch.failed

\* C26: when fetchRaiData calls that were in flight together have all
\* finished with success, locationInfo, and viewUrl with the newest history
\* entry, were last written by one call, the one started last.
C26_LastStartedWins ==
    OverlappedAllDone => (batch.infoByLast /\ batch.viewByLast)

\* Two calls that were in flight together have succeeded, and the location
\* info is the one of a call and the image the one of the other.
C26_InfoAndViewOfDifferentCalls ==
    /\ OverlappedAllDone
    /\ locationInfo # viewUrl.target
    /\ Len(history) = 2

\* Two calls that were in flight together have succeeded, and the info and
\* the image are both those of the call started first.
C26_FirstStartedWins ==
    /\ OverlappedAllDone
    /\ ~batch.infoByLast
    /\ ~batch.viewByLast
    /\ locationInfo = viewUrl.target

----------------------------------------------------------------------------
(* C27 *)

\* C27: whenever a fetchRaiData call is in flight, loading is set.
C27_LoadingCoversFetches == calls # << >> => loading

\* The only call started since none was in flight comes from a voice
\* command, is still in flight, and loading is not set.
C27_VoiceFetchNotCovered ==
    /\ Len(calls) = 1
    /\ calls[1].origin = "voice"
    /\ ~batch.overlap
    /\ voice.vpc = "idle"
    /\ ~loading

\* Of two searches in flight together one has finished, the other is still
\* in flight, and loading is not set.
C27_SecondFetchNotCovered ==
    /\ Len(calls) = 1
    /\ calls[1].origin = "search"
    /\ batch.overlap
    /\ voice.vpc = "idle"
    /\ userActions = 2
    /\ ~loading

----------------------------------------------------------------------------
(* C28 *)

\* The message holds one of '429', 'quota', 'EXHAUSTED'.
HoldsQuotaWord(err) == ~HoldsNoQuotaWord(err)

\* A step in which a regenerateImage call starts.
RegenStarts == regen.cpc = "idle" /\ regen'.cpc # "idle"

\* C28: the step in which a fetchRaiData or regenerateImage call fails
\* leaves quotaExceeded true if and only if the message of the error holds
\* a quota word, and lockStatus OVERRIDE; the step in which such a call
\* starts leaves quotaExceeded false.
C28_QuotaFlag ==
    [][ /\ \A err \in ApiErrors :
            ((\E k \in Slots : FetchFailed(k, err)) \/ RegenFailed(err))
            => /\ quotaExceeded' = HoldsQuotaWord(err)
               /\ lockStatus' = "OVERRIDE"
        /\ (CallStarts \/ RegenStarts) => ~quotaExceeded' ]_vars

\* C28, the part that holds whatever else is in flight: a quota error sets
\* quotaExceeded, another error leaves it as it is, lockStatus is OVERRIDE
\* in both cases, and a start resets quotaExceeded.
C28_QuotaFlagSetOrKept ==
    [][ /\ \A err \in ApiErrors :
            ((\E k \in Slots : FetchFailed(k, err)) \/ RegenFailed(err))
            => /\ quotaExceeded' = (HoldsQuotaWord(err) \/ quotaExceeded)
               /\ lockStatus' = "OVERRIDE"
        /\ (CallStarts \/ RegenStarts) => ~quotaExceeded' ]_vars

\* Of two searches in flight together one failed with a quota error and
\* the other with another error, and quotaExceeded is set.
C28_FlagOfEarlierFailure ==
    /\ calls = << >>
    /\ batch.overlap
    /\ batch.failed
    /\ quotaExceeded
    /\ lockStatus = "OVERRIDE"
    /\ history = << >>

----------------------------------------------------------------------------
(* C29 *)

\* progress is within 0..100.
C29_ProgressInRange == progress \in 0..FULL

\* A press that is held leads to the completed scan.
C29_HoldCompletes == isPressing ~> (scanComplete \/ ~isPressing)

\* The completed scan leads to onVerify having set lockStatus.
C29_CompleteVerifies == scanComplete ~> (lockStatus = "LOCKED")

\* C29: while the scanner button is held and not released the scan
\* completes, scanComplete becomes true and onVerify sets lockStatus to
\* LOCKED; progress is within 0..100 in every reachable state.
C29_HoldToSync ==
    /\ []C29_ProgressInRange
    /\ C29_HoldCompletes
    /\ C29_CompleteVerifies

\* The button is held, progress has passed 100 and the scan is not complete.
C29_HeldPastFull == isPressing /\ progress > FULL /\ ~scanComplete

\* The button is held at 100, the effect has run and set no interval, and
\* the scan is not complete.
C29_HeldAtFullDecays ==
    /\ isPressing
    /\ progress = FULL - DECAY
    /\ ~scanComplete
    /\ effectDue
    /\ ~timerRef
    /\ timeouts = 0

----------------------------------------------------------------------------
(* The stepped memo and ClustersOf *)

\* The loops stepped by OuterBegin, InnerIter, OuterEnd return what
\* ClustersOf computes.
SteppedMemoIsClustersOf ==
    pc = "done" => clusters = ClustersOf(history, pos, loading, imageLoading)

====
